---- MODULE Spec2Model ----
(***************************************************************************)
(* The TP53 Cancer Resistance Explorer (src/app.py), a Streamlit script.   *)
(* Streamlit runs the whole script top to bottom when a session starts and *)
(* again after every widget interaction.  What survives from one run to    *)
(* the next is the st.cache_data memo of load_features and the values of   *)
(* the widgets; everything else is recomputed.  The elements a run renders *)
(* are kept in `out`, an exception that ends a run in `raised`.            *)
(*                                                                         *)
(* A CSV file is represented by the table pandas.read_csv parses it to: a  *)
(* header (the set of column names) and a sequence of rows.                *)
(***************************************************************************)
EXTENDS Integers, Sequences, FiniteSets, TLC

\* ------------------------------------------------------------------ bounds

\* The largest number of data rows of a CSV file.
MaxRows == 2

\* ------------------------------------------------------------ the data model

PreferredFile == "data/tp53_features_with_similarity_clustered.csv"
FallbackFile  == "data/tp53_features_with_similarity.csv"

\* The filenames load_features tries, in the order it tries them.
Candidates == <<PreferredFile, FallbackFile>>
DataFiles  == {Candidates[i] : i \in 1..Len(Candidates)}

tree_path    == "images/TP53_tree.png"
logo_path    == "images/TP53_MSA_logo.png"
barplot_path == "images/identity_barplot.png"
ImagePaths   == {tree_path, logo_path, barplot_path}

Pages == <<"Overview", "TP53 Database", "Explore a Sequence", "About">>
PageSet == {Pages[i] : i \in 1..Len(Pages)}

main_cols == <<"id", "length", "identity_to_human">>
Columns   == {"id", "length", "identity_to_human", "cluster", "frac_A"}

\* The first five characters of each column name: what c.startswith("frac_")
\* looks at.
Prefix5 == [c \in Columns |->
              CASE c = "id" -> "id"
                [] c = "length" -> "lengt"
                [] c = "identity_to_human" -> "ident"
                [] c = "cluster" -> "clust"
                [] c = "frac_A" -> "frac_"]

StartsWithFrac(c) == Prefix5[c] = "frac_"

\* c.replace("frac_", "") for the composition columns.
ReplaceFrac(c) == CASE c = "frac_A" -> "A" [] OTHER -> c

\* The order of the columns in the file's header.
ColumnOrder == <<"id", "length", "identity_to_human", "frac_A", "cluster">>

\* The rows a file may hold.  identity_to_human is a percentage, kept in
\* thousandths of a percent; none of the values lies half way between two
\* hundredths.  Two rows may share an id, a length or an identity.
FullRows ==
  { [id |-> "s1", length |-> 393, identity_to_human |-> 98764, frac_A |-> 8, cluster |-> 0],
    [id |-> "s1", length |-> 361, identity_to_human |-> 45127, frac_A |-> 8, cluster |-> 0],
    [id |-> "s2", length |-> 361, identity_to_human |-> 98764, frac_A |-> 8, cluster |-> 0],
    [id |-> "s2", length |-> 393, identity_to_human |-> 45127, frac_A |-> 8, cluster |-> 0] }

RowsOf(cols) == {[c \in cols |-> f[c]] : f \in FullRows}

SeqsUpTo(S, n) == UNION {[1..k -> S] : k \in 0..n}

\* The headers a file may have: the three main columns with any of the
\* optional ones (cluster, composition), or every column but one main one.
Headers ==
  {Columns \ opt : opt \in SUBSET {"cluster", "frac_A"}}
    \cup {Columns \ {c} : c \in {"id", "length", "identity_to_human"}}

\* Every table read_csv may return: a header and up to MaxRows rows.
Tables == UNION {{[cols |-> cols, rows |-> rows] : rows \in SeqsUpTo(RowsOf(cols), MaxRows)}
                 : cols \in Headers}

\* Python's None, for a file that does not exist and for a value not set.
None == [none |-> TRUE]

\* Files holding only a header line: the full header, or the one without the
\* cluster column.
HeaderOnly == {[cols |-> Columns \ opt, rows |-> << >>] : opt \in {{}, {"cluster"}}}

\* The data/ folders considered: each file is missing or holds a table, and
\* at most one of the two files carries rows.
Disks == {[f \in DataFiles |-> IF f = g THEN s ELSE t] :
            g \in DataFiles, s \in {None} \cup HeaderOnly, t \in {None} \cup Tables}

VARIABLES
  disk,           \* the data/ folder: file name -> None or the table it holds
  cache,          \* st.cache_data's memo of load_features: None, or its result
  reads,          \* how many times pd.read_csv has been called
  features_df,    \* the script's global of the last run
  features_file,  \* the script's global of the last run
  page,           \* the value of the sidebar radio
  selected,       \* the index chosen in the selectbox (0: none)
  probe,          \* what os.path.exists answered for the images in the last run
  out,            \* the elements the last run rendered, in order
  raised,         \* the exception that ended the last run, "none" if none did
  started         \* whether the script has run at all

vars == <<disk, cache, reads, features_df, features_file, page, selected,
          probe, out, raised, started>>

\* ------------------------------------------------------------------ helpers

\* A rendered element: the st.* call, what it is about, and the value shown.
El(kind, label, value) == [kind |-> kind, label |-> label, value |-> value]

\* Python's None where a string is expected (features_file, selected_id).
NoneStr == "None"

Range(s) == {s[i] : i \in 1..Len(s)}

RECURSIVE SelectSeqBy(_, _)
\* The elements of sequence s that are in set S, in the order of s.
SelectSeqBy(s, S) ==
  IF s = <<>> THEN <<>>
  ELSE (IF Head(s) \in S THEN <<Head(s)>> ELSE <<>>) \o SelectSeqBy(Tail(s), S)

\* df.columns, in file order.
ColumnsOf(df) == SelectSeqBy(ColumnOrder, df.cols)

\* Python's f"{x:.2f}" of a value given in thousandths: the value in
\* hundredths, rounded to nearest.
Fmt2(x) == (x + 5) \div 10

\* --------------------------------------------------------------- the loader

RECURSIVE LoadFrom(_, _)
\* The for loop of load_features from its i-th filename on, over folder d.
LoadFrom(d, i) ==
  IF i > Len(Candidates) THEN [df |-> None, fname |-> NoneStr]
  ELSE IF d[Candidates[i]] # None
       THEN [df |-> d[Candidates[i]], fname |-> Candidates[i]]
       ELSE LoadFrom(d, i + 1)

\* load_features with the two filenames tried in the other order.
load_features_fallback_first(d) ==
  IF d[FallbackFile] # None THEN [df |-> d[FallbackFile], fname |-> FallbackFile]
  ELSE IF d[PreferredFile] # None THEN [df |-> d[PreferredFile], fname |-> PreferredFile]
  ELSE [df |-> None, fname |-> NoneStr]

\* load_features passing over a file that holds no rows, as if it were missing.
load_features_skip_empty(d) ==
  LET full == {i \in 1..Len(Candidates) :
                 d[Candidates[i]] # None /\ d[Candidates[i]].rows # << >>}
  IN IF full = {} THEN [df |-> None, fname |-> NoneStr]
     ELSE LET i == CHOOSE k \in full : \A j \in full : k <= j
          IN [df |-> d[Candidates[i]], fname |-> Candidates[i]]

load_features(d) == LoadFrom(d, 1)

\* load_features without @st.cache_data: every call runs the function.
uncached_load_features(c, d) ==
  LET r == load_features(d)
  IN [ret |-> r, cache |-> r, read |-> IF r.df # None THEN 1 ELSE 0]

\* @st.cache_data around load_features (which takes no arguments): the first
\* call runs the function and keeps what it returned, every later call gets
\* that value back.  Gives the value returned, the memo afterwards and the
\* number of pd.read_csv calls made.
cached_load_features(c, d) ==
  IF c # None
  THEN [ret |-> c, cache |-> c, read |-> 0]
  ELSE LET r == load_features(d)
       IN [ret |-> r, cache |-> r, read |-> IF r.df # None THEN 1 ELSE 0]

\* has_cluster taken for granted.
has_cluster_assumed(df) == TRUE

has_cluster(df) == "cluster" \in df.cols

\* ---------------------------------------------------------------- the pages

\* One image block of the Overview page: the image if os.path.exists finds
\* the file, a warning otherwise.  found: the image files that exist.
ImageOrWarning(path, found) ==
  IF path \in found THEN El("image", path, "") ELSE El("warning", path, "")

\* The Overview page without its os.path.exists checks: st.image of a file
\* that is not there raises, and the rest of the page is not rendered.
overview_unchecked(found) ==
  LET blocks == << << El("header", "Overview", ""),
                      El("subheader", "Phylogenetic Tree", "") >>,
                   << El("subheader", "MSA Conservation Logo", "") >>,
                   << El("markdown", "---", ""),
                      El("subheader", "Identity to Human TP53", "") >> >>
      paths == << tree_path, logo_path, barplot_path >>
      missing == {i \in 1..3 : paths[i] \notin found}
  IN IF missing = {}
     THEN [out |-> blocks[1] \o << El("image", paths[1], "") >>
                   \o blocks[2] \o << El("image", paths[2], "") >>
                   \o blocks[3] \o << El("image", paths[3], "") >>
                   \o << El("markdown", "overview text", "") >>,
           raised |-> "none"]
     ELSE LET m == CHOOSE i \in missing : \A j \in missing : i <= j
          IN [out |-> IF m = 1 THEN blocks[1]
                      ELSE IF m = 2 THEN blocks[1] \o << El("image", paths[1], "") >> \o blocks[2]
                      ELSE blocks[1] \o << El("image", paths[1], "") >>
                           \o blocks[2] \o << El("image", paths[2], "") >> \o blocks[3],
              raised |-> "FileNotFoundError"]

Overview(found) ==
  [out |-> << El("header", "Overview", ""),
              El("subheader", "Phylogenetic Tree", ""),
              ImageOrWarning(tree_path, found),
              El("subheader", "MSA Conservation Logo", ""),
              ImageOrWarning(logo_path, found),
              El("markdown", "---", ""),
              El("subheader", "Identity to Human TP53", ""),
              ImageOrWarning(barplot_path, found),
              El("markdown", "overview text", "") >>,
   raised |-> "none"]

\* cols_to_show of the TP53 Database page; hc is the script's has_cluster.
cols_to_show(df, hc) ==
  SelectSeqBy(main_cols, df.cols) \o (IF hc THEN <<"cluster">> ELSE <<>>)

\* The rows left in the order of the table: no sort.
unsorted_order(df) == {[i \in 1..Len(df.rows) |-> i]}

\* The orders sort_values("identity_to_human", ascending=False) may leave the
\* rows in: highest first; the default sort is not stable, so rows of equal
\* identity come in any order.  (Without the column the call raises and no
\* order is used.)
SortOrders(df) ==
  LET n == Len(df.rows)
  IN IF "identity_to_human" \notin df.cols THEN {[i \in 1..n |-> i]}
     ELSE {p \in Permutations(1..n) :
             \A i, j \in 1..n :
               i < j => df.rows[p[i]].identity_to_human >= df.rows[p[j]].identity_to_human}

\* features_df[cols].sort_values(...) as st.dataframe shows it: the
\* columns, and per row its index label and its cells.
Frame(df, cols, order) ==
  [columns |-> cols,
   rows |-> [i \in 1..Len(df.rows) |->
               [index |-> order[i] - 1,
                cells |-> [c \in Range(cols) |-> df.rows[order[i]][c]]]]]

Database(df, hc, order) ==
  LET pre == << El("header", "TP53 Database", ""), El("write", "database text", "") >>
      cols == cols_to_show(df, hc)
  IN IF ~(Range(cols) \subseteq df.cols)
     THEN [out |-> pre, raised |-> "KeyError"]      \* features_df[cols_to_show]
     ELSE IF "identity_to_human" \notin Range(cols)
     THEN [out |-> pre, raised |-> "KeyError"]      \* sort_values("identity_to_human")
     ELSE [out |-> pre \o << El("dataframe", "features", Frame(df, cols, order)),
                             El("markdown", "tip", "") >>,
           raised |-> "none"]

\* The row picked with .iloc[-1]: the last row whose id is selected_id.
LastMatch(df, selected_id) ==
  LET hits == {i \in 1..Len(df.rows) : df.rows[i].id = selected_id}
  IN IF hits = {} THEN 0 ELSE CHOOSE i \in hits : \A j \in hits : i >= j

\* The row features_df[features_df["id"] == selected_id].iloc[0] picks: the
\* first row, in table order, whose id is selected_id (0: there is none).
FirstMatch(df, selected_id) ==
  LET hits == {i \in 1..Len(df.rows) : df.rows[i].id = selected_id}
  IN IF hits = {} THEN 0 ELSE CHOOSE i \in hits : \A j \in hits : i <= j

\* The composition table of the Explore page for one row.
comp_df(df, row) ==
  LET aa_cols == SelectSeqBy(ColumnsOf(df), {c \in Columns : StartsWithFrac(c)})
  IN [columns |-> <<"Amino Acid", "Fraction">>,
      rows |-> [i \in 1..Len(aa_cols) |->
                  [amino_acid |-> ReplaceFrac(aa_cols[i]), fraction |-> row[aa_cols[i]]]]]

\* The Explore a Sequence page; sel is the index the selectbox holds.
Explore(df, hc, sel) ==
  LET pre0 == << El("header", "Explore a Sequence", ""), El("write", "explore text", "") >>
  IN IF "id" \notin df.cols
     THEN [out |-> pre0, raised |-> "KeyError"]                    \* features_df["id"]
     ELSE
  LET seq_ids == [i \in 1..Len(df.rows) |-> df.rows[i].id]
      selected_id == IF seq_ids = <<>> THEN NoneStr ELSE seq_ids[sel]
      pre1 == pre0 \o << El("selectbox", "Select sequence ID", seq_ids) >>
      hit == FirstMatch(df, selected_id)
  IN IF hit = 0
     THEN [out |-> pre1, raised |-> "IndexError"]                  \* .iloc[0]
     ELSE
  LET row == df.rows[hit]
      pre2 == pre1 \o << El("subheader", "Details for", selected_id),
                         El("write", "Basic properties", "") >>
  IN IF "length" \notin df.cols
     THEN [out |-> pre2, raised |-> "KeyError"]                    \* row['length']
     ELSE
  LET pre3 == pre2 \o << El("write", "Length", row.length) >>
                   \o (IF "identity_to_human" \in df.cols
                       THEN << El("write", "Identity to human TP53", Fmt2(row.identity_to_human)) >>
                       ELSE << >>)
  IN IF hc /\ "cluster" \notin df.cols
     THEN [out |-> pre3, raised |-> "KeyError"]                    \* row['cluster']
     ELSE
  [out |-> pre3 \o (IF hc THEN << El("write", "Cluster (AI group)", row.cluster) >> ELSE << >>)
                \o << El("write", "Amino acid composition (fraction)", ""),
                      El("dataframe", "composition", comp_df(df, row)),
                      El("markdown", "explanation", "") >>,
   raised |-> "none"]

About ==
  [out |-> << El("header", "About", ""),
              El("markdown", "about text", ""),
              El("markdown", "---", ""),
              El("markdown", "built with", "") >>,
   raised |-> "none"]

\* --------------------------------------------------------------- the script

\* What every run renders before it loads the data.
Top == << El("title", "TP53 Cancer Resistance Explorer", ""), El("markdown", "intro", "") >>

\* The missing-data branch without its st.stop(): the run goes on to the
\* sidebar message and fails at features_df.columns.
error_without_stop(ld) ==
  [cache |-> ld.cache, read |-> ld.read, df |-> None, file |-> ld.ret.fname,
   out |-> Top \o << El("error", "features file not found", ""),
                     El("sidebar.success", "Loaded features from", ld.ret.fname) >>,
   raised |-> "AttributeError"]

\* The branch taken when load_features returned None: the error message, then
\* st.stop() ends the run.
ErrorAndStop(ld) ==
  [cache |-> ld.cache, read |-> ld.read, df |-> None, file |-> ld.ret.fname,
   out |-> Top \o << El("error", "features file not found", "") >>,
   raised |-> "none"]

\* One run of the script: c the memo, d the data folder, pg and sel the
\* widget values, found the image files that exist, order the order the sort
\* leaves the rows in.
Script(c, d, pg, sel, found, order) ==
  LET ld == cached_load_features(c, d)
  IN IF ld.ret.df = None THEN ErrorAndStop(ld)
     ELSE
  LET df == ld.ret.df
      hc == has_cluster(df)
      side == << El("sidebar.success", "Loaded features from", ld.ret.fname),
                 El("sidebar.radio", "Navigate", pg) >>
      body == CASE pg = "Overview" -> Overview(found)
                [] pg = "TP53 Database" -> Database(df, hc, order)
                [] pg = "Explore a Sequence" -> Explore(df, hc, sel)
                [] pg = "About" -> About
  IN [cache |-> ld.cache, read |-> ld.read, df |-> df, file |-> ld.ret.fname,
      out |-> Top \o side \o body.out, raised |-> body.raised]

\* ------------------------------------------------------------- the behaviour

Init ==
  /\ disk \in Disks
  /\ cache = None
  /\ reads = 0
  /\ features_df = None
  /\ features_file = NoneStr
  /\ page = Pages[1]
  /\ selected = 1
  /\ probe = {}
  /\ out = << >>
  /\ raised = "none"
  /\ started = FALSE

\* Streamlit runs the script with the widgets holding pg and sel.  The image
\* files are looked for only by the Overview page, the rows sorted only by the
\* TP53 Database page, and neither when the run stops at the missing data.
Run(pg, sel) ==
  LET ld == cached_load_features(cache, disk)
      loaded == ld.ret.df # None
  IN \E found \in (IF loaded /\ pg = "Overview" THEN SUBSET ImagePaths ELSE {{}}) :
     \E order \in (IF loaded /\ pg = "TP53 Database" THEN SortOrders(ld.ret.df) ELSE {<< >>}) :
       LET r == Script(cache, disk, pg, sel, found, order)
       IN /\ cache' = r.cache
          /\ reads' = reads + r.read
          /\ features_df' = r.df
          /\ features_file' = r.file
          /\ page' = pg
          /\ selected' = sel
          /\ probe' = found
          /\ out' = r.out
          /\ raised' = r.raised
          /\ started' = TRUE
          /\ UNCHANGED disk

\* A browser opens the app: a new session, its widgets at their defaults
\* (the first radio option, the first selectbox option).  The memo of
\* st.cache_data is the server's and outlives sessions.
NewSession == Run(Pages[1], 1)

\* The user picks another page in the sidebar radio.  A selectbox that was
\* not on the page comes back at its default.
SelectPage(p) ==
  /\ started /\ features_df # None
  /\ p # page
  /\ Run(p, 1)

\* The user picks the i-th entry of the selectbox of the Explore page.
SelectSequence(i) ==
  /\ started /\ features_df # None
  /\ page = "Explore a Sequence"
  /\ "id" \in features_df.cols
  /\ i \in 1..Len(features_df.rows)
  /\ i # selected
  /\ Run(page, i)

\* Somebody removes a data file from the folder.
DeleteFile(f) ==
  /\ disk[f] # None
  /\ disk' = [disk EXCEPT ![f] = None]
  /\ UNCHANGED <<cache, reads, features_df, features_file, page, selected,
                 probe, out, raised, started>>

Next ==
  \/ NewSession
  \/ \E p \in PageSet : SelectPage(p)
  \/ \E i \in 1..MaxRows : SelectSequence(i)
  \/ \E f \in DataFiles : DeleteFile(f)

Spec == Init /\ [][Next]_vars

\* ------------------------------------------------------ reading what was rendered

\* The positions in o of the elements of a kind and label.
ElemsOf(o, kind, label) == {i \in 1..Len(o) : o[i].kind = kind /\ o[i].label = label}

\* The kinds of element in o.
KindsOf(o) == {o[i].kind : i \in 1..Len(o)}

\* The last run got a table from the loader.
Loaded == started /\ features_df # None

MainCols == {"id", "length", "identity_to_human"}

\* ----------------------------------------------------------------------- C1

\* C1: on the call that runs load_features, the table comes from the
\* preferred file when that file exists (whether or not the fallback does),
\* from the fallback file when only that one exists, and the filename
\* returned is the file the table was read from; after every run that loaded
\* a table the sidebar message names that same file.
C1_PreferredThenFallback ==
  [][ /\ (cache = None /\ started' /\ disk[PreferredFile] # None)
          => (features_file' = PreferredFile /\ features_df' = disk[PreferredFile])
      /\ (cache = None /\ started' /\ disk[PreferredFile] = None /\ disk[FallbackFile] # None)
          => (features_file' = FallbackFile /\ features_df' = disk[FallbackFile])
      /\ (cache = None /\ started' /\ features_df' # None)
          => (features_file' \in DataFiles /\ features_df' = disk[features_file'])
      /\ (started' /\ features_df' # None)
          => /\ cache'.fname = features_file'
             /\ \E i \in ElemsOf(out', "sidebar.success", "Loaded features from") :
                  out'[i].value = features_file'
    ]_vars

\* Both files exist, they differ, and the table in use is the preferred one's.
C1_Witness ==
  /\ Loaded /\ reads = 1
  /\ disk[PreferredFile] # None /\ disk[FallbackFile] # None
  /\ disk[PreferredFile] # disk[FallbackFile]
  /\ features_file = PreferredFile
  /\ features_df = disk[PreferredFile]
  /\ Len(features_df.rows) > 0

\* ----------------------------------------------------------------------- C2

\* C2: when neither data file exists at the call that runs load_features, or
\* the memo already holds its (None, None), the run gets (None, None) without
\* an exception, renders the error message as its last element, and renders
\* no 'Loaded features' message, no radio and nothing of any page.
C2_MissingDataHalts ==
  [][ ( /\ started'
        /\ \/ cache = None /\ \A f \in DataFiles : disk[f] = None
           \/ cache # None /\ cache.df = None )
      => /\ features_df' = None
         /\ features_file' = NoneStr
         /\ raised' = "none"
         /\ out' # << >>
         /\ out'[Len(out')].kind = "error"
         /\ KindsOf(out') = {"title", "markdown", "error"}
         /\ ElemsOf(out', "markdown", "intro") = {2}
         /\ Len(out') = 3
    ]_vars

\* A run that found neither file and stopped at the error message.
C2_Witness ==
  /\ started /\ features_df = None
  /\ \A f \in DataFiles : disk[f] = None
  /\ out[Len(out)].kind = "error"

\* ----------------------------------------------------------------------- C3

C4_EmptyListNoThrow ==
  ( /\ Loaded /\ page = "Explore a Sequence"
    /\ "id" \in features_df.cols /\ features_df.rows = << >> )
  => raised = "none"

\* ----------------------------------------------------------------------- C5

\* The detail view of the Explore page was rendered to its end.
DetailShown == Loaded /\ page = "Explore a Sequence" /\ raised = "none"

\* The value of the one element of a kind and label in out.
ValueOf(kind, label) == out[CHOOSE i \in ElemsOf(out, kind, label) : TRUE].value

\* C5 as stated: for a table with the three main columns, the row the detail
\* view uses is the entry picked in the selectbox: the Length and Identity
\* lines show the length and identity_to_human of the entry at the picked
\* position.
C5_PickedEntryShown ==
  (DetailShown /\ MainCols \subseteq features_df.cols)
  => /\ Cardinality(ElemsOf(out, "write", "Length")) = 1
     /\ ValueOf("write", "Length") = features_df.rows[selected].length
     /\ Cardinality(ElemsOf(out, "write", "Identity to human TP53")) = 1
     /\ ValueOf("write", "Identity to human TP53")
          = Fmt2(features_df.rows[selected].identity_to_human)

\* C5, amended: the detail view uses exactly one row, the first row of the
\* table whose id is the id of the picked entry (the picked entry itself
\* when no earlier row shares its id); the heading shows the picked id, the
\* Length line that row's length, and the Identity line, present exactly when
\* the table has the column, that row's identity_to_human to two decimals.
C5_FirstRowOfPickedId ==
  DetailShown
  => \E k \in 1..Len(features_df.rows) :
       /\ features_df.rows[k].id = features_df.rows[selected].id
       /\ \A j \in 1..(k - 1) : features_df.rows[j].id # features_df.rows[selected].id
       /\ ((\A j \in 1..(selected - 1) :
              features_df.rows[j].id # features_df.rows[selected].id) => k = selected)
       /\ Cardinality(ElemsOf(out, "subheader", "Details for")) = 1
       /\ ValueOf("subheader", "Details for") = features_df.rows[selected].id
       /\ Cardinality(ElemsOf(out, "write", "Length")) = 1
       /\ ValueOf("write", "Length") = features_df.rows[k].length
       /\ IF "identity_to_human" \in features_df.cols
          THEN /\ Cardinality(ElemsOf(out, "write", "Identity to human TP53")) = 1
               /\ ValueOf("write", "Identity to human TP53")
                    = Fmt2(features_df.rows[k].identity_to_human)
          ELSE ElemsOf(out, "write", "Identity to human TP53") = {}

\* The second of two entries sharing an id was picked, and the two differ in
\* length and identity.
C5_Witness ==
  /\ DetailShown /\ MainCols \subseteq features_df.cols
  /\ selected = 2
  /\ features_df.rows[1].id = features_df.rows[2].id
  /\ features_df.rows[1].length # features_df.rows[2].length
  /\ features_df.rows[1].identity_to_human # features_df.rows[2].identity_to_human

\* ----------------------------------------------------------------------- C6

\* The columns of the table the TP53 Database page shows.
ShownColumns == Range(ValueOf("dataframe", "features").columns)

C7_CompositionOmitted ==
  ( /\ Loaded /\ page = "Explore a Sequence"
    /\ MainCols \subseteq features_df.cols
    /\ features_df.rows # << >>
    /\ \A c \in features_df.cols : ~StartsWithFrac(c) )
  => /\ raised = "none"
     /\ ElemsOf(out, "write", "Amino acid composition (fraction)") = {}
     /\ ElemsOf(out, "dataframe", "composition") = {}

\* ----------------------------------------------------------------------- C8

\* C8: whichever of the three image files exist, the Overview page raises
\* nothing, renders for each image path exactly one element, the image when
\* the file exists and the warning when it does not, in the order tree, logo,
\* barplot, and ends with the closing text.
C8_ImagesIndependent ==
  (Loaded /\ page = "Overview")
  => /\ raised = "none"
     /\ \A path \in ImagePaths :
          /\ path \in probe
               => /\ Cardinality(ElemsOf(out, "image", path)) = 1
                  /\ ElemsOf(out, "warning", path) = {}
          /\ path \notin probe
               => /\ Cardinality(ElemsOf(out, "warning", path)) = 1
                  /\ ElemsOf(out, "image", path) = {}
     /\ Cardinality({i \in 1..Len(out) : out[i].kind \in {"image", "warning"}}) = 3
     /\ \A i, j \in 1..Len(out) :
          ( /\ out[i].kind \in {"image", "warning"} /\ out[j].kind \in {"image", "warning"}
            /\ \/ out[i].label = tree_path /\ out[j].label # tree_path
               \/ out[i].label = logo_path /\ out[j].label = barplot_path )
          => i < j
     /\ out[Len(out)].kind = "markdown" /\ out[Len(out)].label = "overview text"

\* The tree image is missing, the barplot image is there and is rendered.
C8_Witness ==
  /\ Loaded /\ page = "Overview"
  /\ tree_path \notin probe /\ barplot_path \in probe
  /\ ElemsOf(out, "warning", tree_path) # {}
  /\ ElemsOf(out, "image", barplot_path) # {}

\* ----------------------------------------------------------------------- C9

\* C9: once load_features has run, no step changes what it returned or calls
\* pd.read_csv again; every run renders from the table and filename of that
\* first call; and no run of the script changes the data folder (a step that
\* changes a file only removes it and is not a run).  pd.read_csv is called
\* at most once.
C9_LoadedOnceReadOnly ==
  /\ [][ /\ cache # None => (cache' = cache /\ reads' = reads)
         /\ started' => (cache' # None /\ features_df' = cache'.df
                                       /\ features_file' = cache'.fname)
         /\ disk' # disk
              => /\ \A f \in DataFiles : disk'[f] # disk[f] => disk'[f] = None
                 /\ UNCHANGED <<cache, reads, features_df, features_file,
                                page, selected, started>>
     ]_vars
  /\ [](reads <= 1)

\* The file the table was read from is gone, and the user has since moved
\* to the second entry of the Explore page: the table is still in use.
C9_Witness ==
  /\ DetailShown /\ selected = 2 /\ reads = 1
  /\ \A f \in DataFiles : disk[f] = None
  /\ features_df = cache.df /\ Len(features_df.rows) = 2

\* ---------------------------------------------------------------------- C10

\* The table the TP53 Database page shows.
ShownFrame == ValueOf("dataframe", "features")

\* C10: for a loaded table with the columns id, length and
\* identity_to_human, the TP53 Database page raises nothing and shows one
\* table whose columns are id, length, identity_to_human, then cluster
\* exactly when the loaded table has it (so no frac_ column), whose rows are
\* the rows of the loaded table, each exactly once with its cells, and are
\* ordered by identity_to_human from highest to lowest.
C10_DatabaseTable ==
  (Loaded /\ page = "TP53 Database" /\ MainCols \subseteq features_df.cols)
  => /\ raised = "none"
     /\ Cardinality(ElemsOf(out, "dataframe", "features")) = 1
     /\ ShownFrame.columns
          = IF "cluster" \in features_df.cols
            THEN <<"id", "length", "identity_to_human", "cluster">>
            ELSE <<"id", "length", "identity_to_human">>
     /\ \A c \in Range(ShownFrame.columns) : ~StartsWithFrac(c)
     /\ Len(ShownFrame.rows) = Len(features_df.rows)
     /\ \A k \in 1..Len(features_df.rows) :
          Cardinality({i \in 1..Len(ShownFrame.rows) : ShownFrame.rows[i].index = k - 1}) = 1
     /\ \A i \in 1..Len(ShownFrame.rows) :
          /\ ShownFrame.rows[i].index + 1 \in 1..Len(features_df.rows)
          /\ \A c \in Range(ShownFrame.columns) :
               ShownFrame.rows[i].cells[c] = features_df.rows[ShownFrame.rows[i].index + 1][c]
     /\ \A i, j \in 1..Len(ShownFrame.rows) :
          i < j => ShownFrame.rows[i].cells["identity_to_human"]
                     >= ShownFrame.rows[j].cells["identity_to_human"]

\* The page shows a table whose rows had to be reordered: the file's first
\* row has the lower identity.
C10_Witness ==
  /\ Loaded /\ page = "TP53 Database" /\ raised = "none"
  /\ features_df.cols = Columns
  /\ Len(features_df.rows) = 2
  /\ features_df.rows[1].identity_to_human < features_df.rows[2].identity_to_human
  /\ ShownFrame.rows[1].index = 1

====
